---- MODULE Spec2Model ----
(***************************************************************************)
(* A model of llamachat's WebSocket layer: the Hub (registry and fan-out), *)
(* the upgrade Handler, and the two pumps of every Client.                 *)
(*                                                                         *)
(* Channels.  Hub.Register, Hub.Unregister and Hub.Broadcast are           *)
(* unbuffered: a send completes only together with the receive in Run's    *)
(* select, so every Hub* action below is the rendezvous plus the whole     *)
(* handler Run calls for it.  Client.Send is buffered; send[c] is its      *)
(* buffer and sendClosed[c] says whether close() was called on it.         *)
(***************************************************************************)
EXTENDS Integers, Sequences, FiniteSets, TLC

\* ---------------------------------------------------------------- bounds
\* Capacity of Client.Send in the model (256 in NewClient).
SendCap == 1
\* Broadcasts the callers of the hub submit in one run of HubSpec.
MaxFrames == 2
\* Frames the peers send in one run of the whole program, all connections
\* together.
MaxPeerFrames == 3
\* Seconds that pass in one Tick.
TickStep == 30
\* config.RequestsPerMinute of the rate limiter in the model (60 in
\* config.json).
RequestsPerMinute == 2
\* Seconds for which the rate limiter is followed.
LimitHorizon == 120

\* ------------------------------------------------------ program constants
pongWait == 60

\* ------------------------------------------------------------ the universe
Conns == {"c1", "c2", "c3"}
Users == {"u1", "u2"}
NoConn == "none"

\* The user the Token Validator resolves each connection attempt to; c1 and
\* c2 are two devices of one user.
UserOf(c) == IF c = "c3" THEN "u2" ELSE "u1"

EventTypeMessage == "message"
EventTypeUserJoin == "user_join"
EventTypeUserLeave == "user_leave"
EventTypeTyping == "typing"
EventTypeReadReceipt == "read_receipt"
EventTypeError == "error"

EventTypes ==
    {EventTypeMessage, EventTypeUserJoin, EventTypeUserLeave,
     EventTypeTyping, EventTypeReadReceipt, EventTypeError}

VARIABLES
    clients,      \* Hub.clients: the connection IDs that are keys of the map
    userClients,  \* Hub.userClients: user ID -> one connection ID
    hubPc,        \* where Run is: "select", or "sendUnregister" (part_004:116)
    hubArg,       \* the client Run is sending on h.Unregister, or NoConn
    lastOp,       \* the request Run handled last, and whether its client was
                  \* a key of h.clients when Run received it
    send,         \* Client.Send: the buffered items, oldest first
    sendClosed,   \* Client.Send has been closed
    panicked,     \* "no", or the run-time panic that ended the process
    hstate,       \* Handler: the outcome of each upgrade request
    sock,         \* the socket: "none", "open", "closed"
    rpc,          \* ReadPump: "off","read","broadcast","sendError",
                  \*           "unregister","close","done"
    rmsg,         \* what ReadPump is blocked sending
    curFrame,     \* the frame ReadPump is processing (`message` in its loop)
    why,          \* why ReadPump left its loop
    nframes,      \* frames read so far, all connections together
    remaining,    \* seconds until the read deadline of the socket
    wpc,          \* WritePump: "off","select","write","done"
    whand,        \* the item WritePump received and has not written yet
    written,      \* the items written to the socket in data frames, oldest first
    closeSent,    \* WritePump has written the close frame
    heard,        \* the peer has sent a frame or acknowledged a keepalive (a pong)
    frameIn,      \* codec check: the bytes given to processMessage
    frameOut,     \* codec check: what processMessage did with them
    now,          \* rate limiter: time.Now(), in seconds since the limiter was built
    clientBuckets,\* rate limiter: limiter.clientBuckets, client IP -> TokenBucket
    lastAllow,    \* rate limiter: the last call of allow() and what it did
    burst,        \* rate limiter: requests let through per IP since time last moved
    srvPc,        \* standalone server: where the goroutines of each upgrade request are
    srvClients,   \* standalone server: the keys of Server.clients
    srvFatal      \* standalone server: the runtime has aborted the process

hubVars == <<clients, userClients, hubPc, hubArg, lastOp>>
chanVars == <<send, sendClosed>>
readVars == <<rpc, rmsg, curFrame, why, nframes, remaining, heard>>
writeVars == <<wpc, whand, written, closeSent>>
codecVars == <<frameIn, frameOut>>
limitVars == <<now, clientBuckets, lastAllow, burst>>
srvVars == <<srvPc, srvClients, srvFatal>>
vars ==
    <<clients, userClients, hubPc, hubArg, lastOp, send, sendClosed, panicked,
      hstate, sock, rpc, rmsg, curFrame, why, nframes, remaining, heard,
      wpc, whand, written, closeSent, frameIn, frameOut,
      now, clientBuckets, lastAllow, burst, srvPc, srvClients, srvFatal>>

NoMsg == [bytes |-> "none"]
NoOp == [kind |-> "none", client |-> NoConn, msg |-> NoMsg, found |-> FALSE]

\* ------------------------------------------------------------------ bytes
\* A payload is opaque to the server; <<from, n>> names the n-th payload a
\* peer sent, so that two payloads are equal only when they are the same.
NoPayload == [from |-> NoConn, n |-> 0]
Payloads == {[from |-> c, n |-> 1] : c \in Conns} \cup {NoPayload}

\* The bytes of one inbound frame, by what json.Unmarshal sees in them:
\* syntax "invalid" is not JSON, "null" is the JSON null, "scalar" is any
\* other JSON value that is not an object, "object" is a JSON object whose
\* "type", "timestamp" and "payload" members are as the fields say.
FrameTypes == EventTypes \cup {"absent", "nonstring", "bogus"}
ObjectFrames ==
    [syntax : {"object"}, type : FrameTypes,
     ts : {"absent", "rfc3339", "bad"}, payload : Payloads]
OtherFrames ==
    [syntax : {"invalid", "null", "scalar"}, type : {"absent"},
     ts : {"absent"}, payload : {NoPayload}]
AllFrames == ObjectFrames \cup OtherFrames
NoFrame == [syntax |-> "none", type |-> "absent", ts |-> "absent",
            payload |-> NoPayload]

\* json.Unmarshal(data, &msg) into Message{Type, Timestamp, Payload}: a
\* syntax error, a non-object value, a "type" that is not a string and a
\* "timestamp" that is not an RFC 3339 string are errors; null leaves msg
\* zero; absent members leave their field zero.
Unmarshal(data) ==
    CASE data.syntax = "invalid" -> [err |-> TRUE, Type |-> "", Payload |-> NoPayload]
      [] data.syntax = "scalar" -> [err |-> TRUE, Type |-> "", Payload |-> NoPayload]
      [] data.syntax = "null" -> [err |-> FALSE, Type |-> "", Payload |-> NoPayload]
      [] OTHER ->
           [err |-> data.type = "nonstring" \/ data.ts = "bad",
            Type |-> IF data.type \in {"absent", "nonstring"} THEN "" ELSE data.type,
            Payload |-> data.payload]

\* The raw bytes of a payload, as they travel in Broadcast.Message.
PayloadBytes(p) == [bytes |-> "payload", payload |-> p]
\* json.Marshal of the envelope sendError builds.
ErrorBytes(errMsg) == [bytes |-> "envelope", type |-> EventTypeError, error |-> errMsg]

\* processMessage with the two error replies exchanged.
processMessageSwapped(data) ==
    LET msg == Unmarshal(data) IN
    IF msg.err
      THEN [call |-> "sendError", arg |-> ErrorBytes("Unknown message type")]
      ELSE CASE msg.Type = EventTypeMessage ->
                  [call |-> "handleChatMessage", arg |-> PayloadBytes(msg.Payload)]
             [] msg.Type = EventTypeTyping ->
                  [call |-> "handleTypingEvent", arg |-> PayloadBytes(msg.Payload)]
             [] msg.Type = EventTypeReadReceipt ->
                  [call |-> "handleReadReceipt", arg |-> PayloadBytes(msg.Payload)]
             [] OTHER ->
                  [call |-> "sendError", arg |-> ErrorBytes("Invalid message format")]

\* processMessage: the call it ends in.
processMessage(data) ==
    LET msg == Unmarshal(data) IN
    IF msg.err
      THEN [call |-> "sendError", arg |-> ErrorBytes("Invalid message format")]
      ELSE CASE msg.Type = EventTypeMessage ->
                  [call |-> "handleChatMessage", arg |-> PayloadBytes(msg.Payload)]
             [] msg.Type = EventTypeTyping ->
                  [call |-> "handleTypingEvent", arg |-> PayloadBytes(msg.Payload)]
             [] msg.Type = EventTypeReadReceipt ->
                  [call |-> "handleReadReceipt", arg |-> PayloadBytes(msg.Payload)]
             [] OTHER ->
                  [call |-> "sendError", arg |-> ErrorBytes("Unknown message type")]

\* -------------------------------------------------------------------- hub
\* h.userClients[user] = id
MapPut(m, k, v) == [x \in DOMAIN m \cup {k} |-> IF x = k THEN v ELSE m[x]]
\* delete(h.userClients, user)
MapDelete(m, k) == [x \in DOMAIN m \ {k} |-> m[x]]

\* notifyUserJoin and notifyUserLeave have empty bodies: the items they
\* append to the Send queue of client `to`.
notifyUserJoin(client, to) == <<>>
notifyUserLeave(client, to) == <<>>

\* registerClient
registerClient(client) ==
    /\ clients' = clients \cup {client}
    /\ userClients' = MapPut(userClients, UserOf(client), client)
    /\ send' = [c \in Conns |-> send[c] \o notifyUserJoin(client, c)]
    /\ UNCHANGED <<sendClosed, panicked, hubPc, hubArg>>

\* unregisterClient without its `if _, ok := h.clients[client.ID]; ok`.
unregisterClientUnguarded(client) ==
    /\ clients' = clients \ {client}
    /\ userClients' = MapDelete(userClients, UserOf(client))
    /\ IF sendClosed[client]
         THEN /\ panicked' = "close of closed channel"
              /\ UNCHANGED sendClosed
         ELSE /\ sendClosed' = [sendClosed EXCEPT ![client] = TRUE]
              /\ UNCHANGED panicked
    /\ send' = [c \in Conns |-> send[c] \o notifyUserLeave(client, c)]
    /\ UNCHANGED <<hubPc, hubArg>>

\* unregisterClient: close(client.Send) panics on a closed channel.
unregisterClient(client) ==
    IF client \in clients
      THEN /\ clients' = clients \ {client}
           /\ userClients' = MapDelete(userClients, UserOf(client))
           /\ IF sendClosed[client]
                THEN /\ panicked' = "close of closed channel"
                     /\ UNCHANGED sendClosed
                ELSE /\ sendClosed' = [sendClosed EXCEPT ![client] = TRUE]
                     /\ UNCHANGED panicked
           /\ send' = [c \in Conns |-> send[c] \o notifyUserLeave(client, c)]
           /\ UNCHANGED <<hubPc, hubArg>>
      ELSE UNCHANGED <<clients, userClients, send, sendClosed, panicked, hubPc, hubArg>>

\* The clients the loop of broadcastMessage would send to without its
\* `if id != broadcast.ClientID`.
RecipientsWithOrigin(b) == clients

\* The clients broadcastMessage sends to: every key of h.clients but the
\* origin.
Recipients(b) == clients \ {b.ClientID}

\* broadcastMessage also taking the origin out of the two maps.
broadcastMessageForgettingOrigin(b) ==
    LET rcpt == Recipients(b) IN
    /\ send' = [c \in Conns |->
                  IF c \in rcpt /\ ~sendClosed[c] /\ Len(send[c]) < SendCap
                    THEN Append(send[c], b.Message) ELSE send[c]]
    /\ clients' = clients \ {b.ClientID}
    /\ userClients' = MapDelete(userClients, UserOf(b.ClientID))
    /\ UNCHANGED <<sendClosed, panicked, hubPc, hubArg>>

\* broadcastMessage ranges over h.clients in the map's order, which Go leaves
\* unspecified: `before` are the recipients it reached before `stop`, the
\* first one whose Send it could not append to.  A full queue is closed and
\* Run then sends the client on h.Unregister (line 116), the channel only
\* Run itself receives from; a send on a closed queue panics.
broadcastMessage(b) ==
    LET rcpt == Recipients(b)
        shut == {c \in rcpt : sendClosed[c]}
        full == {c \in rcpt : ~sendClosed[c] /\ Len(send[c]) >= SendCap}
        room == rcpt \ (shut \cup full)
    IN
    IF shut \cup full = {}
      THEN /\ send' = [c \in Conns |->
                         IF c \in rcpt THEN Append(send[c], b.Message) ELSE send[c]]
           /\ UNCHANGED <<clients, userClients, sendClosed, panicked, hubPc, hubArg>>
      ELSE \E stop \in shut \cup full, before \in SUBSET room :
           /\ send' = [c \in Conns |->
                         IF c \in before THEN Append(send[c], b.Message) ELSE send[c]]
           /\ IF stop \in shut
                THEN /\ panicked' = "send on closed channel"
                     /\ UNCHANGED <<sendClosed, hubPc, hubArg>>
                ELSE /\ sendClosed' = [sendClosed EXCEPT ![stop] = TRUE]
                     /\ hubPc' = "sendUnregister"
                     /\ hubArg' = stop
                     /\ UNCHANGED panicked
           /\ UNCHANGED <<clients, userClients>>

\* Run taking the next request while a handler is still running.
HubReadyReentrant == panicked = "no"

\* Run is in its select and the process is alive.
HubReady == hubPc = "select" /\ panicked = "no"

Alive == panicked = "no"

\* ---------------------------------------------------------------- Handler
\* Handler without the conn.Close() of its failed user lookup.
HandlerRejectSocketLeftOpen(c, outcome) ==
    /\ Alive
    /\ hstate[c] = "new"
    /\ hstate' = [hstate EXCEPT ![c] = outcome]
    /\ sock' = [sock EXCEPT ![c] = IF outcome = "lookupFailed" THEN "open" ELSE "none"]
    /\ UNCHANGED <<hubVars, chanVars, panicked, readVars, writeVars, codecVars, limitVars, srvVars>>

\* Handler, up to its return on a missing token, an invalid token, a failed
\* upgrade or a failed user lookup (which closes the socket it upgraded).
HandlerReject(c, outcome) ==
    /\ Alive
    /\ hstate[c] = "new"
    /\ hstate' = [hstate EXCEPT ![c] = outcome]
    /\ sock' = [sock EXCEPT ![c] = IF outcome = "lookupFailed" THEN "closed" ELSE "none"]
    /\ UNCHANGED <<hubVars, chanVars, panicked, readVars, writeVars, codecVars, limitVars, srvVars>>

\* Handler starting the two pumps before its send on hub.Register.
HandlerUpgradePumpsFirst(c) ==
    /\ Alive
    /\ hstate[c] = "new"
    /\ hstate' = [hstate EXCEPT ![c] = "register"]
    /\ sock' = [sock EXCEPT ![c] = "open"]
    /\ rpc' = [rpc EXCEPT ![c] = "read"]
    /\ remaining' = [remaining EXCEPT ![c] = pongWait]
    /\ wpc' = [wpc EXCEPT ![c] = "select"]
    /\ UNCHANGED <<hubVars, chanVars, panicked, rmsg, curFrame, why, nframes, heard,
                   whand, written, closeSent, codecVars, limitVars, srvVars>>

\* Handler, up to NewClient: it now sends the client on hub.Register.
HandlerUpgrade(c) ==
    /\ Alive
    /\ hstate[c] = "new"
    /\ hstate' = [hstate EXCEPT ![c] = "register"]
    /\ sock' = [sock EXCEPT ![c] = "open"]
    /\ UNCHANGED <<hubVars, chanVars, panicked, readVars, writeVars, codecVars, limitVars, srvVars>>

\* The pumps start: ReadPump sets the read deadline and enters its loop,
\* WritePump enters its select.
StartPumps(c) ==
    /\ rpc' = [rpc EXCEPT ![c] = "read"]
    /\ remaining' = [remaining EXCEPT ![c] = pongWait]
    /\ wpc' = [wpc EXCEPT ![c] = "select"]

\* Run receives from h.Register and calls registerClient; Handler goes on to
\* start the two pumps.
HubRegister(c) ==
    /\ HubReady
    /\ hstate[c] = "register"
    /\ registerClient(c)
    /\ lastOp' = [kind |-> "register", client |-> c, msg |-> NoMsg,
                 found |-> c \in clients]
    /\ hstate' = [hstate EXCEPT ![c] = "started"]
    /\ StartPumps(c)
    /\ UNCHANGED <<sock, rmsg, curFrame, why, nframes, heard, whand, written, closeSent,
                   codecVars, limitVars, srvVars>>

\* --------------------------------------------------------------- ReadPump
\* The frames a peer sends in this model: one of each type processMessage
\* handles, and one that is not JSON.
PeerFrames(c, n) ==
    {[syntax |-> "object", type |-> t, ts |-> "rfc3339",
      payload |-> [from |-> c, n |-> n]] :
        t \in {EventTypeMessage, EventTypeTyping, EventTypeReadReceipt}}
    \cup {[syntax |-> "invalid", type |-> "absent", ts |-> "absent", payload |-> NoPayload]}

InLoop(c) == rpc[c] \in {"read", "broadcast", "sendError"}

\* sendError's `c.Send <- data`, from ReadPump of c: panics on a closed
\* queue, appends when there is room, and otherwise blocks.
sendError(c, data) ==
    IF sendClosed[c]
      THEN /\ panicked' = "send on closed channel"
           /\ UNCHANGED <<send, rpc, rmsg>>
      ELSE IF Len(send[c]) < SendCap
             THEN /\ send' = [send EXCEPT ![c] = Append(@, data)]
                  /\ rpc' = [rpc EXCEPT ![c] = "read"]
                  /\ rmsg' = [rmsg EXCEPT ![c] = NoMsg]
                  /\ UNCHANGED panicked
             ELSE /\ rpc' = [rpc EXCEPT ![c] = "sendError"]
                  /\ rmsg' = [rmsg EXCEPT ![c] = data]
                  /\ UNCHANGED <<send, panicked>>

\* ReadMessage returns a frame and processMessage handles it, up to the
\* channel send it ends in.
ReadFrame(c, data) ==
    LET out == processMessage(data) IN
    /\ Alive
    /\ rpc[c] = "read"
    /\ sock[c] = "open"
    /\ remaining[c] > 0
    /\ nframes < MaxPeerFrames
    /\ nframes' = nframes + 1
    /\ heard' = [heard EXCEPT ![c] = TRUE]
    /\ CASE out.call \in {"handleChatMessage", "handleTypingEvent"} ->
              /\ rpc' = [rpc EXCEPT ![c] = "broadcast"]
              /\ rmsg' = [rmsg EXCEPT ![c] = [ClientID |-> c, Message |-> out.arg]]
              /\ curFrame' = [curFrame EXCEPT ![c] = data]
              /\ UNCHANGED <<send, panicked>>
         [] out.call = "handleReadReceipt" ->
              UNCHANGED <<rpc, rmsg, curFrame, send, panicked>>
         [] OTHER -> sendError(c, out.arg) /\ UNCHANGED curFrame
    /\ UNCHANGED <<hubVars, sendClosed, hstate, sock, why, remaining,
                   writeVars, codecVars, limitVars, srvVars>>

\* ReadPump blocked in sendError's send: the queue got room, or was closed.
SendErrorResume(c) ==
    /\ Alive
    /\ rpc[c] = "sendError"
    /\ sendClosed[c] \/ Len(send[c]) < SendCap
    /\ sendError(c, rmsg[c])
    /\ UNCHANGED <<hubVars, sendClosed, hstate, sock, curFrame, why, nframes,
                   remaining, heard, writeVars, codecVars, limitVars, srvVars>>

\* Run receives the Broadcast ReadPump of c sends and calls broadcastMessage.
HubBroadcast(c) ==
    /\ HubReady
    /\ rpc[c] = "broadcast"
    /\ broadcastMessage(rmsg[c])
    /\ lastOp' = [kind |-> "broadcast", client |-> c, msg |-> rmsg[c].Message,
                 found |-> c \in clients]
    /\ rpc' = [rpc EXCEPT ![c] = "read"]
    /\ rmsg' = [rmsg EXCEPT ![c] = NoMsg]
    /\ curFrame' = [curFrame EXCEPT ![c] = NoFrame]
    /\ UNCHANGED <<hstate, sock, why, nframes, remaining, heard,
                   writeVars, codecVars, limitVars, srvVars>>

\* The pong handler, called from ReadMessage: the read deadline moves.
PeerPong(c) ==
    /\ Alive
    /\ rpc[c] = "read"
    /\ sock[c] = "open"
    /\ 0 < remaining[c] /\ remaining[c] < pongWait
    /\ remaining' = [remaining EXCEPT ![c] = pongWait]
    /\ heard' = [heard EXCEPT ![c] = TRUE]
    /\ UNCHANGED <<hubVars, chanVars, panicked, hstate, sock, rpc, rmsg, curFrame,
                   why, nframes, writeVars, codecVars, limitVars, srvVars>>

\* ReadMessage returns an error: the read deadline has passed ("deadline"),
\* the peer closed or the connection broke ("peer"), or WritePump closed the
\* socket ("closed").  ReadPump leaves the loop for its deferred function.
ReadError(c, reason) ==
    /\ Alive
    /\ rpc[c] = "read"
    /\ CASE reason = "deadline" -> sock[c] = "open" /\ remaining[c] = 0
         [] reason = "peer" -> sock[c] = "open"
         [] OTHER -> sock[c] = "closed"
    /\ rpc' = [rpc EXCEPT ![c] = "unregister"]
    /\ why' = [why EXCEPT ![c] = reason]
    /\ remaining' = [remaining EXCEPT ![c] = 0]
    /\ UNCHANGED <<hubVars, chanVars, panicked, hstate, sock, rmsg, curFrame,
                   nframes, heard, writeVars, codecVars, limitVars, srvVars>>

\* Run receives the client ReadPump's deferred function sends on
\* h.Unregister and calls unregisterClient.
HubUnregister(c) ==
    /\ HubReady
    /\ rpc[c] = "unregister"
    /\ unregisterClient(c)
    /\ lastOp' = [kind |-> "unregister", client |-> c, msg |-> NoMsg,
                 found |-> c \in clients]
    /\ rpc' = [rpc EXCEPT ![c] = "close"]
    /\ UNCHANGED <<hstate, sock, rmsg, curFrame, why, nframes, remaining, heard,
                   writeVars, codecVars, limitVars, srvVars>>

\* The deferred function of ReadPump writing a close frame itself before
\* it closes the socket.
ReadPumpCloseWritingCloseFrame(c) ==
    /\ Alive
    /\ rpc[c] = "close"
    /\ rpc' = [rpc EXCEPT ![c] = "done"]
    /\ closeSent' = [closeSent EXCEPT ![c] = sock[c] = "open"]
    /\ sock' = [sock EXCEPT ![c] = "closed"]
    /\ UNCHANGED <<hubVars, chanVars, panicked, hstate, rmsg, curFrame, why,
                   nframes, remaining, heard, wpc, whand, written, codecVars, limitVars, srvVars>>

\* The deferred c.Socket.Close() of ReadPump.
ReadPumpClose(c) ==
    /\ Alive
    /\ rpc[c] = "close"
    /\ rpc' = [rpc EXCEPT ![c] = "done"]
    /\ sock' = [sock EXCEPT ![c] = "closed"]
    /\ UNCHANGED <<hubVars, chanVars, panicked, hstate, rmsg, curFrame, why,
                   nframes, remaining, heard, writeVars, codecVars, limitVars, srvVars>>

\* -------------------------------------------------------------- WritePump
\* `case message, ok := <-c.Send` with ok true: a buffered item is received,
\* also from a queue that is already closed.
WriteReceive(c) ==
    /\ Alive
    /\ wpc[c] = "select"
    /\ Len(send[c]) > 0
    /\ whand' = [whand EXCEPT ![c] = Head(send[c])]
    /\ send' = [send EXCEPT ![c] = Tail(@)]
    /\ wpc' = [wpc EXCEPT ![c] = "write"]
    /\ UNCHANGED <<hubVars, sendClosed, panicked, hstate, sock, readVars, written, closeSent,
                   codecVars, limitVars, srvVars>>

\* The queued items written before the received one.
FrameItemsQueuedFirst(c) == send[c] \o <<whand[c]>>

\* The items of one data frame: the received one, then the len(c.Send)
\* items queued by now, in queue order.
FrameItems(c) == <<whand[c]>> \o send[c]

\* NextWriter, the writes and w.Close() all succeed: one frame goes out.  On
\* a socket ReadPump has closed NextWriter fails and WritePump returns.
WriteFrame(c) ==
    /\ Alive
    /\ wpc[c] = "write"
    /\ IF sock[c] = "open"
         THEN /\ written' = [written EXCEPT ![c] = @ \o FrameItems(c)]
              /\ send' = [send EXCEPT ![c] = <<>>]
              /\ wpc' = [wpc EXCEPT ![c] = "select"]
         ELSE /\ wpc' = [wpc EXCEPT ![c] = "done"]
              /\ UNCHANGED <<written, send>>
    /\ whand' = [whand EXCEPT ![c] = NoMsg]
    /\ UNCHANGED <<hubVars, sendClosed, panicked, hstate, sock, readVars, closeSent, codecVars, limitVars, srvVars>>

\* A write to the peer fails (the peer is gone, writeWait has passed): at
\* NextWriter, before the queue is drained, or at w.Close(), after it.
\* WritePump returns and its deferred function closes the socket.
WriteFail(c, drained) ==
    /\ Alive
    /\ wpc[c] = "write"
    /\ sock[c] = "open"
    /\ send' = [send EXCEPT ![c] = IF drained THEN <<>> ELSE @]
    /\ whand' = [whand EXCEPT ![c] = NoMsg]
    /\ wpc' = [wpc EXCEPT ![c] = "done"]
    /\ sock' = [sock EXCEPT ![c] = "closed"]
    /\ UNCHANGED <<hubVars, sendClosed, panicked, hstate, readVars, written, closeSent,
                   codecVars, limitVars, srvVars>>

\* The receive reporting ok false as soon as the queue is closed, buffered
\* items or not.
WriteClosedEarly(c) ==
    /\ Alive
    /\ wpc[c] = "select"
    /\ sendClosed[c]
    /\ closeSent' = [closeSent EXCEPT ![c] = sock[c] = "open"]
    /\ wpc' = [wpc EXCEPT ![c] = "done"]
    /\ sock' = [sock EXCEPT ![c] = "closed"]
    /\ UNCHANGED <<hubVars, chanVars, panicked, hstate, readVars, whand, written,
                   codecVars, limitVars, srvVars>>

\* `case message, ok := <-c.Send` with ok false: the queue is closed and
\* empty.  WritePump writes a close frame (the error is ignored) and returns.
WriteClosed(c) ==
    /\ Alive
    /\ wpc[c] = "select"
    /\ sendClosed[c] /\ Len(send[c]) = 0
    /\ closeSent' = [closeSent EXCEPT ![c] = sock[c] = "open"]
    /\ wpc' = [wpc EXCEPT ![c] = "done"]
    /\ sock' = [sock EXCEPT ![c] = "closed"]
    /\ UNCHANGED <<hubVars, chanVars, panicked, hstate, readVars, whand, written,
                   codecVars, limitVars, srvVars>>

\* The ticker fires and the ping is written; ok is whether the write
\* succeeded.  A ping that is written changes nothing the program keeps.
WritePing(c, ok) ==
    /\ Alive
    /\ wpc[c] = "select"
    /\ IF ok
         THEN /\ sock[c] = "open"
              /\ UNCHANGED <<wpc, sock>>
         ELSE /\ wpc' = [wpc EXCEPT ![c] = "done"]
              /\ sock' = [sock EXCEPT ![c] = "closed"]
    /\ UNCHANGED closeSent
    /\ UNCHANGED <<hubVars, chanVars, panicked, hstate, readVars, whand, written,
                   codecVars, limitVars, srvVars>>

\* ------------------------------------------------------------------- time
Max(a, b) == IF a > b THEN a ELSE b

\* TickStep seconds pass: every read deadline comes nearer.
Tick ==
    /\ Alive
    /\ \E c \in Conns : InLoop(c) /\ remaining[c] > 0
    /\ remaining' = [c \in Conns |->
                       IF InLoop(c) THEN Max(0, remaining[c] - TickStep)
                       ELSE remaining[c]]
    /\ UNCHANGED <<hubVars, chanVars, panicked, hstate, sock, rpc, rmsg, curFrame,
                   why, nframes, heard, writeVars, codecVars, limitVars, srvVars>>

\* ----------------------------------------------------------- rate limiter
\* The client IPs that send requests, and the upgrade requests the
\* standalone server gets.
IPs == {"ip1", "ip2"}
Reqs == {"r1", "r2", "r3"}

NoCall == [ip |-> "none"]

\* TokenBucket.tokens is a float64.  Here a number of tokens is a record
\* [whole, nano]: whole tokens and billionths of a token, which is exact for
\* every amount refill can add in a whole number of seconds.
TokenUnit == 1000 * 1000 * 1000

\* NewTokenBucket: a full bucket.  refillRate is capacity / float64(time.Minute),
\* tokens per nanosecond.
NewTokenBucket(requestsPerMinute) ==
    [tokens |-> [whole |-> requestsPerMinute, nano |-> 0],
     capacity |-> requestsPerMinute,
     lastRefillTime |-> now]

\* refill's tokensToAdd, in billionths of a token:
\* elapsed.Seconds() * 60 * refillRate = seconds * 60 * capacity / (60 * 10^9)
\* tokens.
tokensToAdd(tb, seconds) == seconds * tb.capacity

\* refill: tokens = min(capacity, tokens + tokensToAdd), lastRefillTime = now.
refill(tb) ==
    LET sum == tb.tokens.nano + tokensToAdd(tb, now - tb.lastRefillTime)
        whole == tb.tokens.whole + (sum \div TokenUnit)
        nano == sum % TokenUnit
    IN [tb EXCEPT !.lastRefillTime = now,
                  !.tokens = IF whole >= tb.capacity
                               THEN [whole |-> tb.capacity, nano |-> 0]
                               ELSE [whole |-> whole, nano |-> nano]]

\* allow without its `if tb.tokens >= 1`.
allowUnchecked(tb) ==
    LET r == refill(tb) IN
    [ok |-> TRUE, bucket |-> [r EXCEPT !.tokens.whole = @ - 1]]

\* allow: refill, then take one token if there is a whole one.
allow(tb) ==
    LET r == refill(tb) IN
    IF r.tokens.whole >= 1
      THEN [ok |-> TRUE, bucket |-> [r EXCEPT !.tokens.whole = @ - 1]]
      ELSE [ok |-> FALSE, bucket |-> r]

\* getClientBucket: the bucket of clientIP, made full on its first request.
getClientBucket(clientIP) ==
    IF clientIP \in DOMAIN clientBuckets
      THEN clientBuckets[clientIP]
      ELSE NewTokenBucket(RequestsPerMinute)

\* ------------------------------------------------------ the whole program
\* NewHub, and no upgrade request made yet.
Init ==
    /\ clients = {}
    /\ userClients = <<>>
    /\ hubPc = "select"
    /\ hubArg = NoConn
    /\ lastOp = NoOp
    /\ send = [c \in Conns |-> <<>>]
    /\ sendClosed = [c \in Conns |-> FALSE]
    /\ panicked = "no"
    /\ hstate = [c \in Conns |-> "new"]
    /\ sock = [c \in Conns |-> "none"]
    /\ rpc = [c \in Conns |-> "off"]
    /\ rmsg = [c \in Conns |-> NoMsg]
    /\ curFrame = [c \in Conns |-> NoFrame]
    /\ why = [c \in Conns |-> "none"]
    /\ nframes = 0
    /\ remaining = [c \in Conns |-> 0]
    /\ heard = [c \in Conns |-> FALSE]
    /\ wpc = [c \in Conns |-> "off"]
    /\ whand = [c \in Conns |-> NoMsg]
    /\ written = [c \in Conns |-> <<>>]
    /\ closeSent = [c \in Conns |-> FALSE]
    /\ frameIn = NoFrame
    /\ frameOut = [call |-> "none", arg |-> NoMsg]
    /\ now = 0
    /\ clientBuckets = <<>>
    /\ lastAllow = NoCall
    /\ burst = [ip \in IPs |-> 0]
    /\ srvPc = [r \in Reqs |-> "new"]
    /\ srvClients = {}
    /\ srvFatal = FALSE

Rejections == {"missingToken", "invalidToken", "upgradeFailed", "lookupFailed"}

\* The upgrade requests made in a run of the whole program: two, by
\* different users.
PumpConns == {"c1", "c3"}

Next ==
    \/ \E c \in PumpConns, outcome \in Rejections : HandlerReject(c, outcome)
    \/ \E c \in PumpConns : HandlerUpgrade(c)
    \/ \E c \in PumpConns : HubRegister(c)
    \/ \E c \in PumpConns : \E data \in PeerFrames(c, nframes + 1) : ReadFrame(c, data)
    \/ \E c \in PumpConns : SendErrorResume(c)
    \/ \E c \in PumpConns : HubBroadcast(c)
    \/ \E c \in PumpConns, reason \in {"peer", "closed"} : ReadError(c, reason)
    \/ \E c \in PumpConns : HubUnregister(c)
    \/ \E c \in PumpConns : ReadPumpClose(c)
    \/ \E c \in PumpConns : WriteReceive(c)
    \/ \E c \in PumpConns : WriteFrame(c)
    \/ \E c \in PumpConns, drained \in BOOLEAN : WriteFail(c, drained)
    \/ \E c \in PumpConns : WriteClosed(c)
    \/ \E c \in PumpConns, ok \in BOOLEAN : WritePing(c, ok)

\* The whole program with time left out: no read deadline passes.
Spec == Init /\ [][Next]_vars

\* The whole program with time: seconds pass, the peers acknowledge
\* keepalives or not, and ReadMessage fails once the read deadline passed.
TimedNext ==
    \/ Next
    \/ Tick
    \/ \E c \in PumpConns : PeerPong(c)
    \/ \E c \in PumpConns : ReadError(c, "deadline")

TimedSpec == Init /\ [][TimedNext]_vars

\* ------------------------------------------------- the hub and its callers
\* The hub and the write pumps alone.  Hub.Register, Hub.Unregister and
\* Hub.Broadcast are exported channels; here any caller sends on them, in
\* any order, the clients Handler built: a client is registered once, and
\* may be unregistered or named as the origin of a broadcast at any time.
ApiRegister(c) ==
    /\ HubReady
    /\ hstate[c] = "new"
    /\ registerClient(c)
    /\ lastOp' = [kind |-> "register", client |-> c, msg |-> NoMsg,
                 found |-> c \in clients]
    /\ hstate' = [hstate EXCEPT ![c] = "started"]
    /\ sock' = [sock EXCEPT ![c] = "open"]
    /\ wpc' = [wpc EXCEPT ![c] = "select"]
    /\ UNCHANGED <<readVars, whand, written, closeSent, codecVars, limitVars, srvVars>>

ApiUnregister(c) ==
    /\ HubReady
    /\ hstate[c] = "started"
    /\ unregisterClient(c)
    /\ lastOp' = [kind |-> "unregister", client |-> c, msg |-> NoMsg,
                 found |-> c \in clients]
    /\ UNCHANGED <<hstate, sock, readVars, writeVars, codecVars, limitVars, srvVars>>

ApiBroadcast(c) ==
    LET b == [ClientID |-> c,
              Message |-> PayloadBytes([from |-> c, n |-> nframes + 1])] IN
    /\ HubReady
    /\ hstate[c] = "started"
    /\ nframes < MaxFrames
    /\ nframes' = nframes + 1
    /\ broadcastMessage(b)
    /\ lastOp' = [kind |-> "broadcast", client |-> c, msg |-> b.Message,
                 found |-> c \in clients]
    /\ UNCHANGED <<hstate, sock, rpc, rmsg, curFrame, why, remaining, heard,
                   writeVars, codecVars, limitVars, srvVars>>

HubNext ==
    \/ \E c \in Conns : ApiRegister(c)
    \/ \E c \in Conns : ApiUnregister(c)
    \/ \E c \in Conns : ApiBroadcast(c)
    \/ \E c \in Conns : WriteReceive(c)
    \/ \E c \in Conns : WriteFrame(c)
    \/ \E c \in Conns : WriteClosed(c)

HubSpec == Init /\ [][HubNext]_vars

\* ------------------------------------------------------- processMessage alone
\* processMessage applied to every kind of frame.
CodecInit ==
    /\ Init

CodecFeed(data) ==
    /\ frameIn' = data
    /\ frameOut' = processMessage(data)
    /\ UNCHANGED <<hubVars, chanVars, panicked, hstate, sock, readVars, writeVars,
                   limitVars, srvVars>>

CodecNext == \E data \in AllFrames : CodecFeed(data)

CodecSpec == CodecInit /\ [][CodecNext]_vars

\* ------------------------------------------------------ rate limiter alone
\* The handler RateLimiterMiddleware returns when the limiter is enabled,
\* for a request from clientIP: the request goes on (c.Next()) when allow()
\* says so and is answered 429 otherwise.
RateLimiterMiddleware(clientIP) ==
    LET bucket == getClientBucket(clientIP)
        res == allow(bucket)
    IN
    /\ clientBuckets' = MapPut(clientBuckets, clientIP, res.bucket)
    /\ lastAllow' = [ip |-> clientIP, ok |-> res.ok,
                     before |-> bucket, refilled |-> refill(bucket).tokens]
    /\ burst' = [burst EXCEPT ![clientIP] = IF res.ok THEN @ + 1 ELSE @]
    /\ UNCHANGED <<now, hubVars, chanVars, panicked, hstate, sock, readVars, writeVars,
                   codecVars, srvVars>>

\* TickStep seconds pass without a request.
LimiterTick ==
    /\ now + TickStep <= LimitHorizon
    /\ now' = now + TickStep
    /\ burst' = [ip \in IPs |-> 0]
    /\ UNCHANGED <<clientBuckets, lastAllow, hubVars, chanVars, panicked, hstate, sock,
                   readVars, writeVars, codecVars, srvVars>>

LimiterNext ==
    \/ \E clientIP \in IPs : RateLimiterMiddleware(clientIP)
    \/ LimiterTick

LimiterSpec == Init /\ [][LimiterNext]_vars

\* ------------------------------------------------------- standalone server
\* The goroutines of the standalone server that touch Server.clients, which
\* no mutex guards: handleWebSocket, run by net/http in one goroutine per
\* request, and the deferred function of each client's readPump.  A map
\* write takes time: it begins, and it is done in a later step.
MapWriters == {r \in Reqs : srvPc[r] \in {"inserting", "deleting"}}

SrvAlive == ~srvFatal

\* handleWebSocket: the upgrade fails and the handler returns.
handleWebSocketFails(r) ==
    /\ SrvAlive
    /\ srvPc[r] = "new"
    /\ srvPc' = [srvPc EXCEPT ![r] = "failed"]
    /\ UNCHANGED <<srvClients, srvFatal, hubVars, chanVars, panicked, hstate, sock,
                   readVars, writeVars, codecVars, limitVars>>

\* handleWebSocket: the upgrade succeeds, the client is built and
\* `s.clients[client.ID] = client` begins.
handleWebSocket(r) ==
    /\ SrvAlive
    /\ srvPc[r] = "new"
    /\ srvPc' = [srvPc EXCEPT ![r] = "inserting"]
    /\ UNCHANGED <<srvClients, srvFatal, hubVars, chanVars, panicked, hstate, sock,
                   readVars, writeVars, codecVars, limitVars>>

\* readPump: ReadMessage fails, the loop ends, and the deferred function
\* closes the connection and begins `delete(c.Server.clients, c.ID)`.
readPump(r) ==
    /\ SrvAlive
    /\ srvPc[r] = "pumping"
    /\ srvPc' = [srvPc EXCEPT ![r] = "deleting"]
    /\ UNCHANGED <<srvClients, srvFatal, hubVars, chanVars, panicked, hstate, sock,
                   readVars, writeVars, codecVars, limitVars>>

\* The map write of r is done.  handleWebSocket goes on to start the pumps;
\* readPump ends.  A write that ran while another goroutine was writing
\* the map is a data race: the write may have taken effect or not, or the
\* runtime has detected it and aborted the process ("fatal error:
\* concurrent map writes").
MapWriteDone(r) ==
    LET inserted == srvPc[r] = "inserting"
        applied == IF inserted THEN srvClients \cup {r} ELSE srvClients \ {r}
        outcomes == IF MapWriters \ {r} = {}
                      THEN {"applied"} ELSE {"applied", "lost", "fatal"}
    IN
    /\ SrvAlive
    /\ r \in MapWriters
    /\ \E outcome \in outcomes :
         /\ srvClients' = IF outcome = "applied" THEN applied ELSE srvClients
         /\ srvFatal' = (outcome = "fatal")
    /\ srvPc' = [srvPc EXCEPT ![r] = IF inserted THEN "pumping" ELSE "gone"]
    /\ UNCHANGED <<hubVars, chanVars, panicked, hstate, sock, readVars, writeVars,
                   codecVars, limitVars>>

ServerNext ==
    \/ \E r \in Reqs : handleWebSocketFails(r)
    \/ \E r \in Reqs : handleWebSocket(r)
    \/ \E r \in Reqs : readPump(r)
    \/ \E r \in Reqs : MapWriteDone(r)

ServerSpec == Init /\ [][ServerNext]_vars

\* ================================================================= claims
IsPayload(x) == x.bytes = "payload"

\* What WritePump has received and not yet written, then the queue.
Pending(c) == (IF whand[c] = NoMsg THEN <<>> ELSE <<whand[c]>>) \o send[c]

\* Everything that went into the Send queue of c and was not lost, in the
\* order it reaches the socket.
Stream(c) == written[c] \o Pending(c)

\* C1 (as claimed; HubSpec): after every Register and Unregister the two maps
\* hold the same connection IDs: every key of clients is recorded in
\* userClients under its user, and every ID in userClients is a key of
\* clients.
C1_MapsConsistent ==
    /\ \A c \in clients :
         UserOf(c) \in DOMAIN userClients /\ userClients[UserOf(c)] = c
    /\ \A u \in DOMAIN userClients : userClients[u] \in clients

\* C2 (as claimed; Spec): broadcastMessage always returns, so that Run is
\* back in its select, ready for the next request, also after a Broadcast
\* that found a queue full.
C2_HubReturnsToSelect == hubPc = "select"

\* The recipients of a Broadcast from a whose Send queue is full.
FullRecipients(a) == {c \in clients \ {a} : Len(send[c]) >= SendCap}

\* C3 (as claimed; HubSpec): a Broadcast that finds a recipient's queue full
\* removes that recipient from the registry, and appends the message to the
\* queue of every other registered connection except the origin.
C3_OverflowUnregistersOthersReceive ==
    [][\A a \in Conns :
         (ApiBroadcast(a) /\ FullRecipients(a) # {}) =>
           /\ \A f \in FullRecipients(a) : f \notin clients'
           /\ \A c \in clients \ ({a} \cup FullRecipients(a)) :
                send'[c] = Append(send[c], lastOp'.msg)]_vars

\* C4 (HubSpec): with no queue of a registered connection full, a Broadcast
\* from a registered connection a appends the message exactly once to the
\* queue of every other registered connection, and leaves every other queue,
\* a's among them, as it was.
C4_BroadcastReachesAllOthersOnce ==
    [][\A a \in Conns :
         (/\ ApiBroadcast(a)
          /\ a \in clients
          /\ \A c \in clients : Len(send[c]) < SendCap) =>
           \A c \in Conns :
             send'[c] = IF c \in clients \ {a}
                          THEN Append(send[c], lastOp'.msg)
                          ELSE send[c]]_vars

\* C4's case: three connections registered, one has broadcast, and the
\* message is the newest item of both other queues and not of its own.
C4_Witness ==
    /\ lastOp.kind = "broadcast"
    /\ hubPc = "select"
    /\ clients = Conns
    /\ \A c \in Conns \ {lastOp.client} :
         Len(send[c]) > 0 /\ send[c][Len(send[c])] = lastOp.msg
    /\ send[lastOp.client] = <<>>

\* C5 (HubSpec): an Unregister of a connection that is no longer registered
\* changes neither map nor any queue, closes nothing and does not panic.
C5_SecondUnregisterIsNoOp ==
    [][\A c \in Conns :
         (ApiUnregister(c) /\ c \notin clients) =>
           /\ UNCHANGED <<clients, userClients, send, sendClosed>>
           /\ panicked' = "no"
           /\ hubPc' = "select"]_vars

\* C5's case: the hub has handled an Unregister of a connection it had
\* unregistered before.
C5_Witness ==
    /\ lastOp.kind = "unregister"
    /\ ~lastOp.found
    /\ sendClosed[lastOp.client]
    /\ panicked = "no"

C7_RecipientGetsEnvelopeVerbatim ==
    [][\A a \in PumpConns :
         (/\ HubBroadcast(a)
          /\ curFrame[a].type = EventTypeMessage
          /\ FullRecipients(a) = {}) =>
           /\ send'[a] = send[a]
           /\ \A b \in clients \ {a} : send'[b] = Append(send[b], curFrame[a])]_vars

\* A user_join envelope that names the user of connection b.
IsJoinOf(x, b) ==
    /\ x.bytes = "envelope"
    /\ x.type = EventTypeUserJoin
    /\ x.user = UserOf(b)

CountJoins(q, b) == Cardinality({i \in 1..Len(q) : IsJoinOf(q[i], b)})

\* C8 (as claimed; Spec): when b registers, the queue of every connection
\* already registered for another user gets exactly one user_join envelope
\* that names b's user.
C8_JoinAnnouncedOnce ==
    [][\A b \in PumpConns :
         HubRegister(b) =>
           \A a \in clients :
             UserOf(a) # UserOf(b) =>
               CountJoins(send'[a], b) = CountJoins(send[a], b) + 1]_vars

\* C9 (as claimed; TimedSpec): a registered connection whose peer has sent
\* nothing is still in the registry while its read deadline has not passed,
\* and once the deadline has passed its Unregister is processed: when the
\* program has nothing left to do, the connection is out of the registry.
C9_SilentPeerUnregisteredAtDeadline ==
    /\ \A c \in PumpConns :
         (/\ hstate[c] = "started"
          /\ ~heard[c]
          /\ why[c] \notin {"peer", "closed"}
          /\ remaining[c] > 0) => c \in clients
    /\ (Alive /\ ~ENABLED TimedNext) =>
         \A c \in PumpConns : (~heard[c] /\ why[c] = "deadline") => c \notin clients

\* The frame fits Message{Type, Timestamp, Payload}: a JSON object whose
\* type, if any, is a string and whose timestamp, if any, is RFC 3339.
FitsEnvelope(data) ==
    data.syntax = "object" /\ data.type # "nonstring" /\ data.ts # "bad"

Malformed == [call |-> "sendError", arg |-> ErrorBytes("Invalid message format")]
UnknownTag == [call |-> "sendError", arg |-> ErrorBytes("Unknown message type")]

HandledTypes == {EventTypeMessage, EventTypeTyping, EventTypeReadReceipt}

C11_NothingFatal ==
    panicked \notin {"close of closed channel", "send on closed channel"}

\* The hard connection-count ceiling of Register.  registerClient has none;
\* it is taken one below the number of connections that ask to register,
\* the smallest case in which a ceiling has to reject.
ConnectionCeiling == Cardinality(Conns) - 1

\* C12 (as claimed; HubSpec): Register rejects a connection when the ceiling
\* is already reached, so the number of registered connections never
\* exceeds the ceiling, whatever Registers and Unregisters came before.
C12_CeilingNeverExceeded ==
    Cardinality(clients) <= ConnectionCeiling

\* C13 (Spec): an upgrade attempt that ended on a missing or invalid token,
\* a failed upgrade or a failed user lookup has submitted no Register (the
\* connection is in neither map), has started no pump, and has closed the
\* raw socket if it was the user lookup that failed (no socket exists in the
\* other cases); every registered connection passed all of these checks.
C13_RegisterOnlyAfterChecks ==
    /\ \A c \in PumpConns :
         hstate[c] \in Rejections =>
           /\ c \notin clients
           /\ \A u \in DOMAIN userClients : userClients[u] # c
           /\ rpc[c] = "off" /\ wpc[c] = "off"
           /\ sock[c] = IF hstate[c] = "lookupFailed" THEN "closed" ELSE "none"
    /\ \A c \in clients : hstate[c] = "started"
    /\ lastOp.kind = "register" => hstate[lastOp.client] \notin Rejections

\* C13's case: one attempt ended on a failed user lookup while another
\* connection is registered.
C13_Witness ==
    \E c, d \in PumpConns :
      /\ hstate[c] = "lookupFailed"
      /\ sock[c] = "closed"
      /\ d \in clients

\* The other registered connections of the user of c.
Siblings(c) == {d \in clients \ {c} : UserOf(d) = UserOf(c)}

\* C14 (as claimed; HubSpec): when a registered connection is unregistered
\* while its user has another registered connection, that connection stays
\* in clients and userClients still records the user, with a connection
\* that is registered.
C14_SiblingKeepsUserEntry ==
    [][\A c \in Conns :
         (ApiUnregister(c) /\ c \in clients /\ Siblings(c) # {}) =>
           /\ Siblings(c) \subseteq clients'
           /\ UserOf(c) \in DOMAIN userClients'
           /\ userClients'[UserOf(c)] \in Siblings(c)]_vars

\* A user_leave envelope that names the user of connection c.
IsLeaveOf(x, c) ==
    /\ x.bytes = "envelope"
    /\ x.type = EventTypeUserLeave
    /\ x.user = UserOf(c)

CountLeaves(q, c) == Cardinality({i \in 1..Len(q) : IsLeaveOf(q[i], c)})

\* C15 (as claimed; HubSpec): when a registered connection c is
\* unregistered, the queue of every remaining connection gets one
\* user_leave envelope naming c's user if c was that user's last connection,
\* and none if the user still has another registered connection.
C15_LeaveAnnouncedWhenLastGone ==
    [][\A c \in Conns :
         (ApiUnregister(c) /\ c \in clients) =>
           \A d \in clients \ {c} :
             CountLeaves(send'[d], c) =
               CountLeaves(send[d], c) + (IF Siblings(c) = {} THEN 1 ELSE 0)]_vars

C17_ErrorReplyQueuedPumpReadsOn ==
    (Alive /\ ~ENABLED Next) => \A c \in PumpConns : rpc[c] # "sendError"

\* C18 (as claimed; Spec): for every frame the inbound pump of c decodes to
\* a type it handles (message, typing or read_receipt), the pump submits
\* one Broadcast to the hub, with c as its ClientID.
C18_DecodedFrameIsBroadcast ==
    [][\A c \in PumpConns : \A data \in PeerFrames(c, nframes + 1) :
         (ReadFrame(c, data) /\ processMessage(data).call # "sendError") =>
           /\ rpc'[c] = "broadcast"
           /\ rmsg'[c].ClientID = c]_vars

\* C19 (as claimed; Spec): no enqueue onto a Send queue waits: the inbound
\* pump is never stopped in sendError's send on a full queue.  (The hub's
\* enqueue is a select with a default and never waits on the queue.)
C19_EnqueueNeverWaits ==
    \A c \in PumpConns : rpc[c] = "sendError" => Len(send[c]) < SendCap

\* C20 (as claimed; Spec): an inbound pump that submits a Broadcast or an
\* Unregister to the hub is not stalled for good: once the program has
\* nothing left to do, no pump is still waiting to hand its request to Run.
C20_SubmissionNeverStallsReader ==
    (Alive /\ ~ENABLED Next) =>
      \A c \in PumpConns : rpc[c] \notin {"broadcast", "unregister"}

\* A pump of c has exited or is in its deferred function.
PumpExited(c) == rpc[c] \in {"unregister", "close", "done"} \/ wpc[c] = "done"

\* C21 (as claimed; Spec): when a pump of a registered connection has
\* exited, the connection gets removed from clients and userClients and its
\* socket gets closed: once the program has nothing left to do, no
\* connection with an exited pump is still in a map or has an open socket.
C21_ExitedPumpLeavesRegistry ==
    (Alive /\ ~ENABLED Next) =>
      \A c \in PumpConns :
        (hstate[c] = "started" /\ PumpExited(c)) =>
          /\ c \notin clients
          /\ \A u \in DOMAIN userClients : userClients[u] # c
          /\ sock[c] = "closed"

\* C22 (Spec): only the outbound pump of a connection writes to its socket:
\* every step that adds to what was written to the socket of c (data in
\* `written`, the close frame in `closeSent`) is a step of WritePump of c,
\* which does one write at a time; ReadPump and Run never write.
C22_OnlyWritePumpWrites ==
    [][\A c \in PumpConns :
         (written'[c] # written[c] \/ closeSent'[c] # closeSent[c]) =>
           (WriteFrame(c) \/ WriteClosed(c))]_vars

\* C22's case: data and the close frame went out on the socket of c, and
\* ReadPump of c has run to its end as well.
C22_Witness ==
    \E c \in PumpConns :
      /\ Len(written[c]) > 0
      /\ closeSent[c]
      /\ rpc[c] = "done"

\* C23 (Spec): Run handles one request at a time.  The two maps change only
\* in a step in which Run handles a Register or an Unregister, and while Run
\* is still inside broadcastMessage (at its send on h.Unregister) it takes
\* no other request: the maps and the record of the request handled last do
\* not change.
C23_OneRequestAtATime ==
    [][/\ (clients' # clients \/ userClients' # userClients) =>
            \E c \in PumpConns : HubRegister(c) \/ HubUnregister(c)
       /\ hubPc = "sendUnregister" =>
            UNCHANGED <<clients, userClients, lastOp, hubPc, hubArg>>]_vars

\* C23's case: requests of two pumps wait for Run while it is inside
\* broadcastMessage.
C23_Witness ==
    /\ hubPc = "sendUnregister"
    /\ \E c, d \in PumpConns :
         c # d /\ rpc[c] = "broadcast" /\ rpc[d] = "unregister"

\* Run has handled the Unregister of c.
Unregistered(c) == hstate[c] = "started" /\ c \notin clients /\ sendClosed[c]

\* C24 (as claimed; Spec): once Run has handled the Unregister of c, the
\* outbound pump of c sees the closed queue, writes a close frame, closes
\* the socket and ends: when the program has nothing left to do, WritePump
\* of c is done, the socket is closed and the close frame went out.
C24_UnregisteredPumpSendsCloseFrame ==
    (Alive /\ ~ENABLED Next) =>
      \A c \in PumpConns :
        Unregistered(c) =>
          /\ wpc[c] = "done"
          /\ sock[c] = "closed"
          /\ closeSent[c]

\* C25 (Spec): no pump of a connection runs before Run has received and
\* handled that connection's Register, so when Run handles a Broadcast or
\* an Unregister, the connection it comes from had been registered: it was
\* a key of clients when Run received the request.
C25_RegisterBeforePumps ==
    /\ \A c \in PumpConns :
         (rpc[c] # "off" \/ wpc[c] # "off") => hstate[c] = "started"
    /\ lastOp.kind \in {"broadcast", "unregister"} => lastOp.found

\* C25's case: Run has handled a Broadcast of a connection whose pumps run.
C25_Witness ==
    /\ lastOp.kind = "broadcast"
    /\ lastOp.found
    /\ rpc[lastOp.client] = "read"

\* C26 (HubSpec): a Broadcast that meets no full queue changes nothing but
\* the queues of the registered connections other than its origin: the two
\* maps, the closed flags and the origin's queue stay as they were, Run is
\* back at its select, and every other queue is either untouched or longer
\* by the one message.
C26_BroadcastChangesOnlyOtherQueues ==
    [][\A a \in Conns :
         (ApiBroadcast(a) /\ FullRecipients(a) = {}) =>
           /\ UNCHANGED <<clients, userClients, sendClosed, panicked, hubPc>>
           /\ send'[a] = send[a]
           /\ \A c \in Conns \ {a} :
                \/ send'[c] = send[c] /\ c \notin clients
                \/ send'[c] = Append(send[c], lastOp'.msg) /\ c \in clients]_vars

\* C26's case: a connection registered with another of the same user has
\* broadcast; it is still in both maps' domain and its own queue is empty.
C26_Witness ==
    /\ lastOp.kind = "broadcast"
    /\ lastOp.client \in clients
    /\ Siblings(lastOp.client) # {}
    /\ UserOf(lastOp.client) \in DOMAIN userClients
    /\ send[lastOp.client] = <<>>
    /\ \E c \in clients : Len(send[c]) > 0 /\ send[c][Len(send[c])] = lastOp.msg

\* s is t with items added at its end.
IsPrefix(s, t) == Len(s) <= Len(t) /\ SubSeq(t, 1, Len(s)) = s

\* C27 (HubSpec, where no socket write fails): the outbound pump writes
\* every item enqueued for its connection once and in enqueue order.  What
\* was written followed by what is pending only ever grows at its end, by
\* the items enqueued; the steps of WritePump move items from pending to
\* written without dropping, repeating or reordering any; and a WritePump
\* that has ended, after the hub closed the queue, has left nothing pending.
C27_EveryItemWrittenOnceInOrder ==
    /\ [](\A c \in Conns : wpc[c] = "done" => Pending(c) = <<>>)
    /\ [][\A c \in Conns :
            /\ IsPrefix(Stream(c), Stream(c)')
            /\ IsPrefix(written[c], written'[c])
            /\ (WriteReceive(c) \/ WriteFrame(c) \/ WriteClosed(c)) =>
                 Stream(c)' = Stream(c)]_vars

\* C27's case: the hub closed the queue of c, and WritePump of c has
\* written two items and the close frame and has ended.
C27_Witness ==
    \E c \in Conns :
      /\ sendClosed[c]
      /\ wpc[c] = "done"
      /\ closeSent[c]
      /\ Len(written[c]) >= 2

\* C28 (LimiterSpec): every client bucket holds between 0 and capacity
\* tokens at all times; allow() lets a request through exactly when the
\* refilled bucket holds at least one whole token, and then takes exactly
\* one; so between two moments at which time moves, a client gets at most
\* RequestsPerMinute requests through before it is refused.
C28_TokensWithinCapacity ==
    /\ [](/\ \A ip \in DOMAIN clientBuckets :
               LET tb == clientBuckets[ip] IN
               /\ 0 <= tb.tokens.whole /\ tb.tokens.whole <= tb.capacity
               /\ 0 <= tb.tokens.nano /\ tb.tokens.nano < TokenUnit
               /\ tb.tokens.whole = tb.capacity => tb.tokens.nano = 0
               /\ tb.capacity = RequestsPerMinute
          /\ \A ip \in IPs : burst[ip] <= RequestsPerMinute)
    /\ [][\A ip \in IPs :
            RateLimiterMiddleware(ip) =>
              /\ lastAllow'.ok = (lastAllow'.refilled.whole >= 1)
              /\ clientBuckets'[ip].tokens =
                   [lastAllow'.refilled EXCEPT
                      !.whole = IF lastAllow'.ok THEN @ - 1 ELSE @]]_vars

\* C28's case: with no time passing a client had RequestsPerMinute requests
\* let through and the next one was refused.
C28_Witness ==
    /\ lastAllow # NoCall
    /\ ~lastAllow.ok
    /\ burst[lastAllow.ip] = RequestsPerMinute

\* C29 (as claimed; LimiterSpec): a bucket refills at RequestsPerMinute
\* tokens per minute: allow() called t seconds after the last refill finds
\* t/60 * RequestsPerMinute tokens more in the bucket than were left, or a
\* full bucket (checked for the t at which that gain is a whole number).
C29_RefillsPerMinute ==
    [][\A ip \in IPs :
         RateLimiterMiddleware(ip) =>
           LET tb == lastAllow'.before
               gain == (now - tb.lastRefillTime) * RequestsPerMinute
           IN gain % 60 = 0 =>
                lastAllow'.refilled =
                  IF tb.tokens.whole + (gain \div 60) >= tb.capacity
                    THEN [whole |-> tb.capacity, nano |-> 0]
                    ELSE [whole |-> tb.tokens.whole + (gain \div 60),
                          nano |-> tb.tokens.nano]]_vars

\* C30 (as claimed; ServerSpec): the accesses to Server.clients exclude one
\* another: at no time are two goroutines writing the map, be it the insert
\* of one request and the delete of another client's readPump, or two
\* inserts.
C30_ClientsMapExclusive ==
    Cardinality(MapWriters) <= 1

====
